---- MODULE Spec2Model ----
\* Model of azure.ai.ml.entities._load_functions: the load_<entity> wrappers,
\* load_component, load_common, _try_load_yaml_dict and
\* _load_common_raising_marshmallow_error, as one sequential state machine.
\* One call is in progress at a time; pc is the position inside that call and
\* trace records, in order, every call made to a collaborator.
EXTENDS Integers, Sequences, FiniteSets, TLC

\* ------------------------------------------------------------------ bounds
\* longest tuple of positional arguments a caller passes
MaxArgs == 1

\* ------------------------------------------------------------ Python values
\* A value that can be passed as source / path / args[i] / relative_origin.
\*   kind "none"     : None
\*   kind "str"      : a str, val is its text
\*   kind "pathlike" : an os.PathLike object, val is its text
\*   kind "stream"   : an open stream; named says whether it has a .name
\*                     attribute and val is then that name
PyNone == [kind |-> "none", val |-> "", named |-> FALSE]
Str(s) == [kind |-> "str", val |-> s, named |-> FALSE]
PathObj(s) == [kind |-> "pathlike", val |-> s, named |-> FALSE]
NamedStream(n) == [kind |-> "stream", val |-> n, named |-> TRUE]
NamelessStream == [kind |-> "stream", val |-> "", named |-> FALSE]

\* bool(v)
Truthy(v) ==
    CASE v.kind = "none" -> FALSE
      [] v.kind = "str" -> v.val # ""
      [] OTHER -> TRUE

\* keyword values client / name / version: a string, None, or not passed
KwAbsent == "<absent>"
KwNone == "<None>"
KwTruthy(v) == v \notin {KwAbsent, KwNone, ""}

\* params_override: None (or not passed), or a list of single-entry mappings,
\* each written <<key, value>>
NoOverride == [isnone |-> TRUE, items |-> <<>>]
OverrideList(l) == [isnone |-> FALSE, items |-> l]

\* Parse results of a YAML document. A mapping has the keys "type" (the
\* discriminator), "name" and "body" (the rest of the document); Missing
\* marks a key the mapping does not have.
Missing == "<missing>"
YamlNull == [shape |-> "NoneType", type |-> Missing, name |-> Missing, body |-> Missing]
YamlList == [shape |-> "list", type |-> Missing, name |-> Missing, body |-> Missing]
YamlScalar == [shape |-> "str", type |-> Missing, name |-> Missing, body |-> Missing]
YamlDict(t, n, b) == [shape |-> "dict", type |-> t, name |-> n, body |-> b]
EmptyDict == YamlDict(Missing, Missing, Missing)

\* --------------------------------------------------------------- input sets
SourceVals ==
    {PyNone, Str(""), Str("/tmp/src.yaml"), PathObj("conf/job.yaml"),
     NamedStream("/tmp/foo.yaml"), NamelessStream}
ArgVals == {PyNone, Str("arg.yaml")}
PathVals == {PyNone, Str(""), Str("legacy.yaml"), NamelessStream}
OriginVals == {PyNone, Str("base/")}
ArgTuples == UNION {[1..n -> ArgVals] : n \in 0..MaxArgs}
OverrideVals ==
    {NoOverride, OverrideList(<<>>), OverrideList(<< <<"name", "b">> >>),
     OverrideList(<< <<"name", "a">>, <<"name", "b">> >>)}

Documents ==
    {YamlNull, YamlList, YamlScalar, EmptyDict,
     YamlDict(Missing, Missing, "good"),
     YamlDict("t1", Missing, "good"),
     YamlDict("t2", Missing, "good"),
     YamlDict("t1", Missing, "bad"),
     YamlDict("t2", Missing, "bad"),
     YamlDict("t1", Missing, "crash"),
     YamlDict("bogus", Missing, "good")}

\* what reading a source can give: an I/O failure or a parse result
NotRead == [status |-> "notread", doc |-> YamlNull]
IOFailure == [status |-> "ioerror", doc |-> YamlNull]
Parsed(d) == [status |-> "parsed", doc |-> d]
ReadResults == {IOFailure} \cup {Parsed(d) : d \in Documents}

\* what client.components.get can give
NoRemote == "<not called>"
RemoteResults == {"remote-component", "remote-error"}

\* ------------------------------------------------------------------- calls
Fns ==
    {"load_job", "load_workspace", "load_registry", "load_datastore",
     "load_code", "load_compute", "load_component", "load_model", "load_data",
     "load_environment", "load_online_deployment", "load_batch_deployment",
     "load_online_endpoint", "load_batch_endpoint",
     "load_workspace_connection", "load_schedule"}

\* (extra stands for any other keyword argument; it is not passed unless
\* said otherwise)
Kwargs(po, c, n, v) ==
    [params_override |-> po, client |-> c, name |-> n, version |-> v, extra |-> KwAbsent]
ExtraVals == {KwAbsent, "tag"}

\* keyword arguments a caller passes: every wrapper takes params_override and
\* further keyword arguments, load_component also client, name and version
KwargVals(f) ==
    IF f = "load_component"
    THEN {[Kwargs(po, c, n, v) EXCEPT !.extra = x] :
              po \in OverrideVals, c \in {KwAbsent, "mlclient"},
              n \in {KwAbsent, "", "x"}, v \in {KwAbsent, "1"}, x \in ExtraVals}
    ELSE {[Kwargs(po, KwAbsent, KwAbsent, KwAbsent) EXCEPT !.extra = x] :
              po \in OverrideVals, x \in ExtraVals}

\* slip: the two endpoint wrappers hand over each other's class
WrapperClassSwapped(f) ==
    CASE f = "load_job" -> "Job"
      [] f = "load_workspace" -> "Workspace"
      [] f = "load_registry" -> "Registry"
      [] f = "load_datastore" -> "Datastore"
      [] f = "load_code" -> "Code"
      [] f = "load_compute" -> "Compute"
      [] f = "load_component" -> "Component"
      [] f = "load_model" -> "Model"
      [] f = "load_data" -> "Data"
      [] f = "load_environment" -> "Environment"
      [] f = "load_online_deployment" -> "OnlineDeployment"
      [] f = "load_batch_deployment" -> "BatchDeployment"
      [] f = "load_online_endpoint" -> "BatchEndpoint"
      [] f = "load_batch_endpoint" -> "OnlineEndpoint"
      [] f = "load_workspace_connection" -> "WorkspaceConnection"
      [] f = "load_schedule" -> "JobSchedule"

\* the class each wrapper hands to load_common
WrapperClass(f) ==
    CASE f = "load_job" -> "Job"
      [] f = "load_workspace" -> "Workspace"
      [] f = "load_registry" -> "Registry"
      [] f = "load_datastore" -> "Datastore"
      [] f = "load_code" -> "Code"
      [] f = "load_compute" -> "Compute"
      [] f = "load_component" -> "Component"
      [] f = "load_model" -> "Model"
      [] f = "load_data" -> "Data"
      [] f = "load_environment" -> "Environment"
      [] f = "load_online_deployment" -> "OnlineDeployment"
      [] f = "load_batch_deployment" -> "BatchDeployment"
      [] f = "load_online_endpoint" -> "OnlineEndpoint"
      [] f = "load_batch_endpoint" -> "BatchEndpoint"
      [] f = "load_workspace_connection" -> "WorkspaceConnection"
      [] f = "load_schedule" -> "JobSchedule"

\* a class: an entity family and the member of it ("base" is the family's
\* own class)
Class(fam, sub) == [family |-> fam, sub |-> sub]
NoClass == Class("<none>", "<none>")

\* ----------------------------------------------------------------- outcomes
Running == [kind |-> "running"]
Return(v) == [kind |-> "return", value |-> v]
Raise(e) == [kind |-> "raise", error |-> e]

ValidationException(msg, etype) ==
    [exc |-> "ValidationException", message |-> msg, target |-> "COMPONENT",
     error_category |-> "USER_ERROR", error_type |-> etype]
IOError(src) == [exc |-> "IOError", source |-> src]

\* ------------------------------------------------------------ collaborators
\* azure.ai.ml._utils.utils.load_yaml: opens the source if it is a path,
\* reads it and parses it. None and the empty path cannot be opened; for any
\* other source the file system decides (env).
Readable(src) == src.kind \in {"pathlike", "stream"} \/ (src.kind = "str" /\ src.val # "")
LoadYaml(src, env) == IF Readable(src) THEN env ELSE IOFailure

\* field-path overwrites on top of the parsed values, in list order
RECURSIVE ApplyOverrides(_, _)
ApplyOverrides(data, items) ==
    IF items = <<>> THEN data
    ELSE ApplyOverrides([data EXCEPT ![Head(items)[1]] = Head(items)[2]], Tail(items))

\* cls._resolve_cls_and_type(data, params_override): the member of the
\* family named by the discriminator (an override of "type" counts), the
\* family's own class when there is no discriminator; an unknown
\* discriminator is rejected
KnownTypes == {"t1", "t2"}
ResolveClsAndType(cls, data, params_override) ==
    LET t == ApplyOverrides(data, params_override).type IN
    CASE t = Missing -> [ok |-> TRUE, cls |-> Class(cls.family, "base"), type_str |-> KwNone]
      [] t \in KnownTypes -> [ok |-> TRUE, cls |-> Class(cls.family, t), type_str |-> t]
      [] OTHER -> [ok |-> FALSE, cls |-> NoClass, type_str |-> t]

\* the entity a class's deserialization routine builds
Entity(cls, data, yaml_path, params_override, kwargs) ==
    [cls |-> cls, data |-> ApplyOverrides(data, params_override),
     base_path |-> yaml_path, kwargs |-> kwargs]

\* the schema validation failure marshmallow raises for a document
ValidationError(cls, data) == [exc |-> "ValidationError", cls |-> cls, data |-> data]

\* cls._load(data, yaml_path, params_override, **kwargs)
Load(cls, data, yaml_path, params_override, kwargs) ==
    LET d == ApplyOverrides(data, params_override) IN
    CASE d.body = "good" -> Return(Entity(cls, data, yaml_path, params_override, kwargs))
      [] d.body = "crash" -> Raise([exc |-> "RuntimeError", cls |-> cls])
      [] OTHER -> Raise(ValidationError(cls, d))

\* issubclass(cls, SchemaValidatableMixin): a property of the concrete class;
\* some families have the mixin in their own class (and so in every member),
\* in the others only some members have it
ValidatableFamilies == {"Component", "Environment"}
SchemaValidatable(cls) == cls.family \in ValidatableFamilies \/ cls.sub = "t1"

\* _ValidationResultBuilder.from_validation_error(e, relative_origin)
FromValidationError(e, origin) == [error |-> e, origin |-> origin]

\* validation_result.try_raise(error_target, schema, raise_mashmallow_error,
\* additional_message)
TryRaise(result, error_target, schema, additional_message) ==
    Raise([exc |-> "SchemaValidationError", result |-> result,
           error_target |-> error_target, schema |-> schema,
           additional_message |-> additional_message])

GetValidationErrorTarget(cls) == [target_of |-> cls]
CreateSchemaForValidationWithBasePath(cls) == [schema_of |-> cls]

\* client.components.get(name, version)
ComponentsGet(name, version, env) ==
    IF env = "remote-error" THEN Raise([exc |-> "HttpResponseError"])
    ELSE Return([remote |-> TRUE, name |-> name, version |-> version])

\* ---------------------------------------------------------------- the code
DEFAULT_RELATIVE_ORIGIN == Str("./")

\* slip: the legacy path is not taken over
ResolveSourceIgnoresPath(source, args, path) ==
    IF source.kind = "none" /\ Len(args) > 0
    THEN [source |-> args[1], warned |-> FALSE]
    ELSE [source |-> source, warned |-> path.kind # "none" /\ source.kind = "none"]

\* slip: path is consulted before the positional arguments
ResolveSourcePathFirst(source, args, path) ==
    IF source.kind = "none"
    THEN IF path.kind # "none"
         THEN [source |-> path, warned |-> TRUE]
         ELSE IF Len(args) > 0
              THEN [source |-> args[1], warned |-> FALSE]
              ELSE [source |-> source, warned |-> FALSE]
    ELSE [source |-> source, warned |-> FALSE]

\* load_common, deprecated path input: source, else args[0], else path
ResolveSource(source, args, path) ==
    IF source.kind = "none"
    THEN IF Len(args) > 0
         THEN [source |-> args[1], warned |-> FALSE]
         ELSE IF path.kind # "none"
              THEN [source |-> path, warned |-> TRUE]
              ELSE [source |-> source, warned |-> FALSE]
    ELSE [source |-> source, warned |-> FALSE]

\* slip: the name of a stream is not looked at
DeriveOriginNoName(relative_origin, source) ==
    IF relative_origin.kind = "none"
    THEN IF source.kind \in {"str", "pathlike"}
         THEN source
         ELSE DEFAULT_RELATIVE_ORIGIN
    ELSE relative_origin

\* load_common, relative origin
DeriveOrigin(relative_origin, source) ==
    IF relative_origin.kind = "none"
    THEN IF source.kind \in {"str", "pathlike"}
         THEN source
         ELSE IF source.kind = "stream" /\ source.named
              THEN Str(source.val)
              ELSE DEFAULT_RELATIVE_ORIGIN
    ELSE relative_origin

\* slip: the caller's list is not taken over
DefaultOverrideDropped(po) == <<>>

\* load_common: params_override = params_override or []
DefaultOverride(po) == IF po.isnone \/ po.items = <<>> THEN <<>> ELSE po.items

\* slip: no check for an empty document
CheckYamlDictNoEmptyCheck(yaml_dict) ==
    IF yaml_dict.shape # "dict"
    THEN Raise(ValidationException(
             <<"Expect dict but get ", yaml_dict.shape, " after parsing yaml file">>,
             "CANNOT_PARSE"))
    ELSE Return(yaml_dict)

\* slip: no check that the parse result is a mapping
CheckYamlDictNoShapeCheck(yaml_dict) ==
    IF yaml_dict.shape = "NoneType"
    THEN Raise(ValidationException(<<"Target yaml file is empty">>, "CANNOT_PARSE"))
    ELSE Return(yaml_dict)

\* slip: "if not yaml_dict" in place of "if yaml_dict is None"
CheckYamlDictFalsy(yaml_dict) ==
    IF yaml_dict.shape = "NoneType" \/ yaml_dict = EmptyDict
    THEN Raise(ValidationException(<<"Target yaml file is empty">>, "CANNOT_PARSE"))
    ELSE IF yaml_dict.shape # "dict"
         THEN Raise(ValidationException(
                  <<"Expect dict but get ", yaml_dict.shape, " after parsing yaml file">>,
                  "CANNOT_PARSE"))
         ELSE Return(yaml_dict)

\* _try_load_yaml_dict, the checks on the parse result
CheckYamlDict(yaml_dict) ==
    IF yaml_dict.shape = "NoneType"
    THEN Raise(ValidationException(<<"Target yaml file is empty">>, "CANNOT_PARSE"))
    ELSE IF yaml_dict.shape # "dict"
         THEN Raise(ValidationException(
                  <<"Expect dict but get ", yaml_dict.shape, " after parsing yaml file">>,
                  "CANNOT_PARSE"))
         ELSE Return(yaml_dict)

\* slip: the guidance is written also when there is no discriminator
AdditionalMessageAlways(type_str) ==
    <<"If you are trying to configure an entity that is not of type ", type_str,
      ", please specify the correct type in the 'type' property.">>

\* load_common, additional_message of the structured error
AdditionalMessage(type_str) ==
    IF type_str = KwNone THEN <<>>
    ELSE <<"If you are trying to configure an entity that is not of type ", type_str,
           ", please specify the correct type in the 'type' property.">>

\* slip: the caught failure is always re-raised as it is
TranslateErrorAlwaysRaw(cls, type_str, e, relative_origin) ==
    [calls |-> <<>>, outcome |-> Raise(e)]

\* slip: no "else: raise e", the failure of a class without structured
\* validation is swallowed and load_common returns None
TranslateErrorSwallowed(cls, type_str, e, relative_origin) ==
    IF SchemaValidatable(cls)
    THEN LET validation_result == FromValidationError(e, relative_origin)
             error_target == GetValidationErrorTarget(cls)
             schema == CreateSchemaForValidationWithBasePath(cls)
             additional_message == AdditionalMessage(type_str)
         IN [calls |-> <<[op |-> "from_validation_error", error |-> e,
                          origin |-> relative_origin],
                         [op |-> "try_raise", error_target |-> error_target,
                          schema |-> schema, raise_mashmallow_error |-> TRUE,
                          additional_message |-> additional_message]>>,
             outcome |-> TryRaise(validation_result, error_target, schema,
                                  additional_message)]
    ELSE [calls |-> <<>>, outcome |-> Return(PyNone)]

\* load_common, except ValidationError
\* (calls: the collaborators called, outcome: how the clause ends)
TranslateError(cls, type_str, e, relative_origin) ==
    IF SchemaValidatable(cls)
    THEN LET validation_result == FromValidationError(e, relative_origin)
             error_target == GetValidationErrorTarget(cls)
             schema == CreateSchemaForValidationWithBasePath(cls)
             additional_message == AdditionalMessage(type_str)
         IN [calls |-> <<[op |-> "from_validation_error", error |-> e,
                          origin |-> relative_origin],
                         [op |-> "try_raise", error_target |-> error_target,
                          schema |-> schema, raise_mashmallow_error |-> TRUE,
                          additional_message |-> additional_message]>>,
             outcome |->
                 LET r == TryRaise(validation_result, error_target, schema,
                                   additional_message)
                 IN IF r.kind = "raise" THEN r ELSE Return(PyNone)]
    ELSE [calls |-> <<>>, outcome |-> Raise(e)]

\* load_component: kwargs.pop(key, None)
Pop(v) == IF v = KwAbsent THEN KwNone ELSE v

\* slip: kwargs.get in place of kwargs.pop, the three stay in kwargs
StripTripleKept(kwargs) == kwargs

\* load_component: what the three kwargs.pop calls leave in kwargs
StripTriple(kwargs) ==
    [kwargs EXCEPT !.client = KwAbsent, !.name = KwAbsent, !.version = KwAbsent]

\* slip: the legacy path is taken over without the warning
ComponentResolveSourceSilent(source, args, path) ==
    IF source.kind = "none"
    THEN IF Len(args) > 0
         THEN [source |-> args[1], warned |-> FALSE]
         ELSE [source |-> path, warned |-> FALSE]
    ELSE [source |-> source, warned |-> FALSE]

\* load_component, deprecated path input
ComponentResolveSource(source, args, path) ==
    IF source.kind = "none"
    THEN IF Len(args) > 0
         THEN [source |-> args[1], warned |-> FALSE]
         ELSE IF path.kind # "none"
              THEN [source |-> path, warned |-> TRUE]
              ELSE [source |-> source, warned |-> FALSE]
    ELSE [source |-> source, warned |-> FALSE]

\* slip: "or" in place of "and" between client, name and version
ComponentBranchAnyOfTriple(source, client, name, version) ==
    IF Truthy(source) THEN "local"
    ELSE IF KwTruthy(client) \/ KwTruthy(name) \/ KwTruthy(version) THEN "remote"
         ELSE "missing"

\* slip: "if source is not None" in place of "if source"
ComponentBranchSourceNotNone(source, client, name, version) ==
    IF source.kind # "none" THEN "local"
    ELSE IF KwTruthy(client) /\ KwTruthy(name) /\ KwTruthy(version) THEN "remote"
         ELSE "missing"

\* slip: the remote triple is tested before the source
ComponentBranchRemoteFirst(source, client, name, version) ==
    IF KwTruthy(client) /\ KwTruthy(name) /\ KwTruthy(version) THEN "remote"
    ELSE IF Truthy(source) THEN "local"
         ELSE "missing"

\* load_component: local load, remote fetch, or neither
ComponentBranch(source, client, name, version) ==
    IF Truthy(source) THEN "local"
    ELSE IF KwTruthy(client) /\ KwTruthy(name) /\ KwTruthy(version) THEN "remote"
         ELSE "missing"

MissingValueError ==
    ValidationException(<<"One of (client, name, version), (source) should be provided.">>,
                        "MISSING_VALUE")

\* ------------------------------------------- azure.core.experimental.transport
\* __all__
TransportAll ==
    <<"PyodideTransport", "HttpXTransport", "AsyncHttpXTransport", "Urllib3Transport">>

\* __dir__()
TransportDir == TransportAll

\* the backend modules and the third-party package each of them imports
Packages == {"pyodide", "httpx", "urllib3"}
BackendModules == {"_pyodide", "_httpx", "_httpx_async", "_urllib3"}
PackageOf(module) ==
    CASE module = "_pyodide" -> "pyodide"
      [] module = "_httpx" -> "httpx"
      [] module = "_httpx_async" -> "httpx"
      [] module = "_urllib3" -> "urllib3"

\* "from ._module import Class" works when the module is already imported or
\* the package it needs is installed; otherwise it raises ImportError
Importable(installed, loaded) ==
    {m \in BackendModules : m \in loaded \/ PackageOf(m) \in installed}

BackendClass(module, name) == [class |-> name, module |-> module]
ImportError(msg) == [exc |-> "ImportError", message |-> msg]
AttributeError(name) ==
    [exc |-> "AttributeError",
     message |-> <<"module 'azure.core.experimental.transport' has no attribute ", name>>]

\* "from ._module import Class; return Class" inside try / except ImportError
ImportBackend(module, name, importable, msg) ==
    IF module \in importable
    THEN [outcome |-> Return(BackendClass(module, name)), imported |-> {module}]
    ELSE [outcome |-> Raise(ImportError(msg)), imported |-> {}]

\* slip: the last backend has no branch
GetAttrNoUrllib3(name, importable) ==
    CASE name = "PyodideTransport" ->
             ImportBackend("_pyodide", "PyodideTransport", importable,
                           "pyodide package is not installed")
      [] name = "HttpXTransport" ->
             ImportBackend("_httpx", "HttpXTransport", importable,
                           "httpx package is not installed")
      [] name = "AsyncHttpXTransport" ->
             ImportBackend("_httpx_async", "AsyncHttpXTransport", importable,
                           "httpx package is not installed")
      [] OTHER -> [outcome |-> Raise(AttributeError(name)), imported |-> {}]

\* __getattr__(name)
GetAttr(name, importable) ==
    CASE name = "PyodideTransport" ->
             ImportBackend("_pyodide", "PyodideTransport", importable,
                           "pyodide package is not installed")
      [] name = "HttpXTransport" ->
             ImportBackend("_httpx", "HttpXTransport", importable,
                           "httpx package is not installed")
      [] name = "AsyncHttpXTransport" ->
             ImportBackend("_httpx_async", "AsyncHttpXTransport", importable,
                           "httpx package is not installed")
      [] name = "Urllib3Transport" ->
             ImportBackend("_urllib3", "Urllib3Transport", importable,
                           "urllib3 package is not installed")
      [] OTHER -> [outcome |-> Raise(AttributeError(name)), imported |-> {}]

\* attribute names a caller asks the module for
AttrNames ==
    {"PyodideTransport", "HttpXTransport", "AsyncHttpXTransport", "Urllib3Transport",
     "RequestsTransport", "urllib3transport"}

NoLookup == [name |-> "<none>", importable |-> {}, outcome |-> Running]
Transport(installed) ==
    [installed |-> installed, loaded |-> {}, last |-> NoLookup, listing |-> <<>>,
     failed |-> {}, succeeded |-> {}]
NoTransport == Transport({})

\* ------------------------------------------------------------------- state
VARIABLES
    pc,        \* position in the call
    call,      \* the wrapper's arguments as the caller gave them
    comp,      \* load_component's locals
    lc,        \* load_common's parameters and locals
    content,   \* what reading the source gave
    remote,    \* what client.components.get gave
    raw,       \* the ValidationError caught in load_common
    outcome,   \* how the call ended
    trace,     \* calls made to collaborators, in order
    prev,      \* the legacy path= call this call repeats with source=
    tp         \* azure.core.experimental.transport: the packages installed,
               \* the backend modules imported and the last attribute lookup

vars == <<pc, call, comp, lc, content, remote, raw, outcome, trace, prev, tp>>

NoCall ==
    [fn |-> "<none>", source |-> PyNone, args |-> <<>>, path |-> PyNone,
     relative_origin |-> PyNone, kwargs |-> Kwargs(NoOverride, KwAbsent, KwAbsent, KwAbsent)]
NoComp ==
    [source |-> PyNone, client |-> KwNone, name |-> KwNone, version |-> KwNone,
     kwargs |-> Kwargs(NoOverride, KwAbsent, KwAbsent, KwAbsent)]
NoFrame ==
    [requested |-> NoClass, cls |-> NoClass, source |-> PyNone, path |-> PyNone,
     relative_origin |-> PyNone, args |-> <<>>, params_override |-> NoOverride,
     overrides |-> <<>>, kwargs |-> Kwargs(NoOverride, KwAbsent, KwAbsent, KwAbsent),
     yaml_dict |-> YamlNull, type_str |-> KwNone]
NoRaw == [exc |-> "<none>"]
NoPrev == [call |-> NoCall, content |-> NotRead, remote |-> NoRemote,
           outcome |-> Running, trace |-> <<>>, lc |-> NoFrame]

\* load_common(cls, source, path, relative_origin, args, **kwargs)
Frame(cls, source, path, relative_origin, args, kwargs) ==
    [NoFrame EXCEPT !.requested = cls, !.cls = cls, !.source = source, !.path = path,
                    !.relative_origin = relative_origin, !.args = args,
                    !.params_override = kwargs.params_override,
                    !.kwargs = [kwargs EXCEPT !.params_override = NoOverride]]

Init ==
    /\ pc = "idle"
    /\ call = NoCall
    /\ comp = NoComp
    /\ lc = NoFrame
    /\ content = NotRead
    /\ remote = NoRemote
    /\ raw = NoRaw
    /\ outcome = Running
    /\ trace = <<>>
    /\ prev = NoPrev
    /\ tp = NoTransport

Begin(c, p) ==
    /\ pc' = "wrapper"
    /\ call' = c
    /\ comp' = NoComp
    /\ lc' = NoFrame
    /\ content' = NotRead
    /\ remote' = NoRemote
    /\ raw' = NoRaw
    /\ outcome' = Running
    /\ trace' = <<>>
    /\ prev' = p
    /\ tp' = tp

\* a caller calls one of the wrappers; calls share no state, so a behaviour
\* follows one call (and its repetition, see Migrate)
Call ==
    /\ pc = "idle"
    /\ \E f \in Fns, s \in SourceVals, a \in ArgTuples, p \in PathVals,
          o \in OriginVals :
       \E k \in KwargVals(f) :
          Begin([fn |-> f, source |-> s, args |-> a, path |-> p,
                 relative_origin |-> o, kwargs |-> k], NoPrev)

IsLegacyCall(c) == c.source.kind = "none" /\ c.args = <<>> /\ c.path.kind # "none"

\* a caller that used path= repeats the call with source= and nothing else
\* changed
Migrate ==
    /\ pc = "done"
    /\ prev = NoPrev
    /\ IsLegacyCall(call)
    /\ Begin([call EXCEPT !.source = call.path, !.path = PyNone],
             [call |-> call, content |-> content, remote |-> remote,
              outcome |-> outcome, trace |-> trace, lc |-> lc])

\* load_job .. load_schedule (all wrappers but load_component)
Wrapper ==
    /\ pc = "wrapper"
    /\ call.fn # "load_component"
    /\ lc' = Frame(Class(WrapperClass(call.fn), "base"), call.source, call.path,
                   call.relative_origin, call.args, call.kwargs)
    /\ pc' = "load_common"
    /\ UNCHANGED <<call, comp, content, remote, raw, outcome, trace, prev, tp>>

\* load_component up to the call it delegates to
LoadComponent ==
    /\ pc = "wrapper"
    /\ call.fn = "load_component"
    /\ LET client == Pop(call.kwargs.client)
           name == Pop(call.kwargs.name)
           version == Pop(call.kwargs.version)
           kwargs == StripTriple(call.kwargs)
           r == ComponentResolveSource(call.source, call.args, call.path)
           warn == IF r.warned THEN <<[op |-> "warn"]>> ELSE <<>>
           branch == ComponentBranch(r.source, client, name, version)
       IN /\ comp' = [source |-> r.source, client |-> client, name |-> name,
                      version |-> version, kwargs |-> kwargs]
          /\ CASE branch = "local" ->
                  /\ lc' = Frame(Class(WrapperClass(call.fn), "base"), r.source, call.path,
                                 call.relative_origin, call.args, kwargs)
                  /\ pc' = "load_common"
                  /\ trace' = trace \o warn
                  /\ outcome' = outcome
               [] branch = "remote" ->
                  /\ lc' = lc
                  /\ pc' = "remote"
                  /\ trace' = trace \o warn \o
                              <<[op |-> "components.get", name |-> name, version |-> version]>>
                  /\ outcome' = outcome
               [] OTHER ->
                  /\ lc' = lc
                  /\ pc' = "done"
                  /\ trace' = trace \o warn
                  /\ outcome' = Raise(MissingValueError)
    /\ UNCHANGED <<call, content, remote, raw, prev, tp>>

\* the environment's answers are the same when a call is repeated
ReadEnv == IF prev.content.status # "notread" THEN {prev.content} ELSE ReadResults
RemoteEnv == IF prev.remote # NoRemote THEN {prev.remote} ELSE RemoteResults

\* client.components.get returns or raises, and load_component with it
RemoteGet ==
    /\ pc = "remote"
    /\ \E env \in RemoteEnv :
          /\ remote' = env
          /\ outcome' = ComponentsGet(comp.name, comp.version, env)
    /\ pc' = "done"
    /\ UNCHANGED <<call, comp, lc, content, raw, trace, prev, tp>>

\* load_common up to the call of _try_load_yaml_dict
LoadCommon ==
    /\ pc = "load_common"
    /\ LET r == ResolveSource(lc.source, lc.args, lc.path)
           warn == IF r.warned THEN <<[op |-> "warn"]>> ELSE <<>>
       IN /\ lc' = [lc EXCEPT !.source = r.source,
                              !.relative_origin = DeriveOrigin(lc.relative_origin, r.source),
                              !.overrides = DefaultOverride(lc.params_override)]
          /\ trace' = trace \o warn \o <<[op |-> "load_yaml", source |-> r.source]>>
    /\ pc' = "read"
    /\ UNCHANGED <<call, comp, content, remote, raw, outcome, prev, tp>>

\* slip: a failed read is tried once more
TryLoadYamlDictRetry ==
    /\ pc = "read"
    /\ \E env \in ReadEnv :
          LET got == LoadYaml(lc.source, env)
              checked == CheckYamlDict(got.doc)
              reads == {i \in 1..Len(trace) : trace[i].op = "load_yaml"}
          IN /\ content' = got
             /\ IF got.status = "ioerror"
                THEN IF Cardinality(reads) < 2
                     THEN /\ trace' = Append(trace, [op |-> "load_yaml", source |-> lc.source])
                          /\ pc' = "read"
                          /\ UNCHANGED <<lc, outcome>>
                     ELSE /\ outcome' = Raise(IOError(lc.source))
                          /\ pc' = "done"
                          /\ UNCHANGED <<lc, trace>>
                ELSE IF checked.kind = "raise"
                     THEN /\ outcome' = checked
                          /\ pc' = "done"
                          /\ UNCHANGED <<lc, trace>>
                     ELSE /\ outcome' = outcome
                          /\ lc' = [lc EXCEPT !.yaml_dict = checked.value]
                          /\ trace' = Append(trace,
                                  [op |-> "_resolve_cls_and_type", cls |-> lc.cls,
                                   data |-> checked.value, params_override |-> lc.overrides])
                          /\ pc' = "resolve"
    /\ UNCHANGED <<call, comp, remote, raw, prev, tp>>

\* _try_load_yaml_dict: load_yaml answers, the parse result is checked
TryLoadYamlDict ==
    /\ pc = "read"
    /\ \E env \in ReadEnv :
          LET got == LoadYaml(lc.source, env)
              checked == CheckYamlDict(got.doc)
          IN /\ content' = got
             /\ IF got.status = "ioerror"
                THEN /\ outcome' = Raise(IOError(lc.source))
                     /\ pc' = "done"
                     /\ UNCHANGED <<lc, trace>>
                ELSE IF checked.kind = "raise"
                     THEN /\ outcome' = checked
                          /\ pc' = "done"
                          /\ UNCHANGED <<lc, trace>>
                     ELSE /\ outcome' = outcome
                          /\ lc' = [lc EXCEPT !.yaml_dict = checked.value]
                          /\ trace' = Append(trace,
                                  [op |-> "_resolve_cls_and_type", cls |-> lc.cls,
                                   data |-> checked.value, params_override |-> lc.overrides])
                          /\ pc' = "resolve"
    /\ UNCHANGED <<call, comp, remote, raw, prev, tp>>

\* cls._resolve_cls_and_type answers; load_common calls
\* _load_common_raising_marshmallow_error, which calls cls._load
ResolveType ==
    /\ pc = "resolve"
    /\ LET r == ResolveClsAndType(lc.cls, lc.yaml_dict, lc.overrides) IN
       IF r.ok
       THEN /\ lc' = [lc EXCEPT !.cls = r.cls, !.type_str = r.type_str]
            /\ trace' = Append(trace,
                    [op |-> "_load", cls |-> r.cls, data |-> lc.yaml_dict,
                     yaml_path |-> lc.relative_origin, params_override |-> lc.overrides,
                     kwargs |-> lc.kwargs])
            /\ outcome' = outcome
            /\ pc' = "construct"
       ELSE /\ outcome' = Raise(ValidationException(<<"Unsupported type ", r.type_str>>,
                                                    "INVALID_VALUE"))
            /\ pc' = "done"
            /\ UNCHANGED <<lc, trace>>
    /\ UNCHANGED <<call, comp, content, remote, raw, prev, tp>>

\* slip: "except Exception" in place of "except ValidationError"
ConstructCatchAll ==
    /\ pc = "construct"
    /\ LET r == Load(lc.cls, lc.yaml_dict, lc.relative_origin, lc.overrides, lc.kwargs) IN
       IF r.kind = "raise"
       THEN /\ raw' = r.error
            /\ outcome' = outcome
            /\ pc' = "translate"
       ELSE /\ raw' = raw
            /\ outcome' = r
            /\ pc' = "done"
    /\ UNCHANGED <<call, comp, lc, content, remote, trace, prev, tp>>

\* cls._load answers: load_common returns the entity, catches a
\* ValidationError, or lets any other exception through
Construct ==
    /\ pc = "construct"
    /\ LET r == Load(lc.cls, lc.yaml_dict, lc.relative_origin, lc.overrides, lc.kwargs) IN
       IF r.kind = "raise" /\ r.error.exc = "ValidationError"
       THEN /\ raw' = r.error
            /\ outcome' = outcome
            /\ pc' = "translate"
       ELSE /\ raw' = raw
            /\ outcome' = r
            /\ pc' = "done"
    /\ UNCHANGED <<call, comp, lc, content, remote, trace, prev, tp>>

\* load_common's except ValidationError clause
Translate ==
    /\ pc = "translate"
    /\ LET t == TranslateError(lc.cls, lc.type_str, raw, lc.relative_origin) IN
          /\ outcome' = t.outcome
          /\ trace' = trace \o t.calls
    /\ pc' = "done"
    /\ UNCHANGED <<call, comp, lc, content, remote, raw, prev, tp>>

Next ==
    \/ Call
    \/ Migrate
    \/ Wrapper
    \/ LoadComponent
    \/ RemoteGet
    \/ LoadCommon
    \/ TryLoadYamlDict
    \/ ResolveType
    \/ Construct
    \/ Translate

Spec == Init /\ [][Next]_vars

\* ------------------------------------------------------------ vocabulary
\* positions of the calls of one collaborator in the trace
Calls(op) == {i \in 1..Len(trace) : trace[i].op = op}
Warnings == Cardinality(Calls("warn"))
NotWarn(e) == e.op # "warn"
\* the call went through load_common as far as reading the source
ReadAttempted == Calls("load_yaml") # {}
\* neither type resolution nor entity construction was invoked
NothingBuilt == Calls("_resolve_cls_and_type") = {} /\ Calls("_load") = {}
\* the entity class each wrapper is declared to return
OwnClass ==
    [load_job |-> "Job", load_workspace |-> "Workspace", load_registry |-> "Registry",
     load_datastore |-> "Datastore", load_code |-> "Code", load_compute |-> "Compute",
     load_component |-> "Component", load_model |-> "Model", load_data |-> "Data",
     load_environment |-> "Environment", load_online_deployment |-> "OnlineDeployment",
     load_batch_deployment |-> "BatchDeployment", load_online_endpoint |-> "OnlineEndpoint",
     load_batch_endpoint |-> "BatchEndpoint",
     load_workspace_connection |-> "WorkspaceConnection", load_schedule |-> "JobSchedule"]
\* source, else args[0], else path
Precedence(c) ==
    IF c.source.kind # "none" THEN c.source
    ELSE IF Len(c.args) > 0 THEN c.args[1] ELSE c.path
IsPathValue(v) == v.kind = "str" \/ v.kind = "pathlike"
ParseError(e) == e.exc = "ValidationException" /\ e.error_type = "CANNOT_PARSE"

\* ------------------------------------------------------------------- claims

C2_PathEqualsSource ==
    (pc = "done" /\ prev # NoPrev) =>
        /\ outcome = prev.outcome
        /\ content = prev.content
        /\ remote = prev.remote
        /\ lc.source = prev.lc.source
        /\ lc.relative_origin = prev.lc.relative_origin
        /\ lc.cls = prev.lc.cls
        /\ trace = SelectSeq(prev.trace, NotWarn)
        /\ Len(prev.trace) = Len(trace) + 1
C2_Witness ==
    /\ pc = "done" /\ prev # NoPrev /\ outcome.kind = "return"
    /\ call.fn = "load_component" /\ content.status = "parsed"

\* C3: a finished call has emitted the deprecation warning exactly once when
\* its source came from path (source absent, no positional argument, path
\* given) and never otherwise; no call ever emits it twice, and the call goes
\* on after the warning (to the read, the remote fetch or the missing-value
\* error).
C3_WarnsOnceIffLegacy ==
    /\ Warnings <= 1
    /\ Warnings = 1 => IsLegacyCall(call)
    /\ (pc \in {"read", "resolve", "construct", "translate", "remote", "done"}) =>
           (Warnings = 1 <=> IsLegacyCall(call))
    /\ (pc = "done" /\ Warnings = 1) =>
           \/ Len(trace) > 1
           \/ outcome = Raise(MissingValueError)
C3_Witness ==
    /\ pc = "done" /\ call.fn = "load_component" /\ IsLegacyCall(call)
    /\ Warnings = 1 /\ outcome.kind = "return"

\* C4: the source handed to the reader is source when given, else args[0]
\* when there are positional arguments (whatever args[0] is), else path; with
\* all three absent it is None and the call still reaches the read. The
\* source load_component tests follows the same order.
C4_SourcePrecedence ==
    /\ \A i \in Calls("load_yaml") : trace[i].source = Precedence(call)
    /\ Cardinality(Calls("load_yaml")) <= 1
    /\ (pc \in {"read", "resolve", "construct", "translate"}) =>
           (ReadAttempted /\ lc.source = Precedence(call))
    /\ (call.fn = "load_component" /\ pc \notin {"idle", "wrapper"}) =>
           comp.source = Precedence(call)
    /\ (call.fn \notin {"load_component", "<none>"} /\ pc = "done") => ReadAttempted
C4_Witness ==
    /\ pc = "read" /\ call.source = PyNone /\ Len(call.args) > 0
    /\ call.args[1] = PyNone /\ call.path = Str("legacy.yaml")
    /\ trace[Len(trace)].source = PyNone

\* C5: the origin given to entity construction and to error translation is
\* the caller's relative_origin when one is given; otherwise the effective
\* source when that is a str or a path-like, else the source's name when it
\* has one, else "./".
C5_ExpectedOrigin ==
    LET src == Precedence(call) IN
    IF call.relative_origin.kind # "none" THEN call.relative_origin
    ELSE IF IsPathValue(src) THEN src
         ELSE IF src.kind = "stream" /\ src.named THEN Str(src.val)
              ELSE Str("./")
C6_EmptyDocument ==
    (content.status = "parsed" /\ content.doc.shape = "NoneType") =>
        /\ pc = "done"
        /\ outcome = Raise(ValidationException(<<"Target yaml file is empty">>, "CANNOT_PARSE"))
        /\ NothingBuilt
C6_Witness ==
    /\ content = Parsed(YamlNull) /\ pc = "done" /\ call.fn = "load_component"

\* C7: when the top level of the document read is not a mapping (a list, a
\* scalar) the call ends with ValidationException, CANNOT_PARSE, whose
\* message names the type actually read, and neither type resolution nor
\* entity construction is invoked.
C7_WrongShape ==
    (content.status = "parsed" /\ content.doc.shape \notin {"NoneType", "dict"}) =>
        /\ pc = "done"
        /\ outcome.kind = "raise"
        /\ ParseError(outcome.error)
        /\ \E k \in 1..Len(outcome.error.message) :
              outcome.error.message[k] = content.doc.shape
        /\ NothingBuilt
C7_Witness ==
    /\ content = Parsed(YamlList) /\ pc = "done" /\ call.fn = "load_job"

\* C8 as stated: the document handed to type resolution and to entity
\* construction is a mapping with at least one entry, and a parse result
\* that is None, not a mapping or an empty mapping ends the call with a
\* parse error before either is attempted.
C8_Original ==
    /\ \A i \in Calls("_resolve_cls_and_type") \cup Calls("_load") :
          trace[i].data.shape = "dict" /\ trace[i].data # EmptyDict
    /\ (content.status = "parsed" /\ (content.doc.shape # "dict" \/ content.doc = EmptyDict)) =>
          (pc = "done" /\ outcome.kind = "raise" /\ ParseError(outcome.error) /\ NothingBuilt)

\* C8 amended: the document handed to type resolution and to entity
\* construction is a mapping, possibly an empty one; a parse result that is
\* None or not a mapping ends the call with a parse error before either is
\* attempted, while an empty mapping is handed on to type resolution.
C8_Amended ==
    /\ \A i \in Calls("_resolve_cls_and_type") \cup Calls("_load") :
          trace[i].data.shape = "dict" /\ trace[i].data = content.doc
    /\ (content.status = "parsed" /\ content.doc.shape # "dict") =>
          (pc = "done" /\ outcome.kind = "raise" /\ ParseError(outcome.error) /\ NothingBuilt)
    /\ (content.status = "parsed" /\ content.doc = EmptyDict) =>
          (Calls("_resolve_cls_and_type") # {} /\ ~(outcome.kind = "raise" /\ ParseError(outcome.error)))
C8_Witness ==
    /\ content = Parsed(EmptyDict) /\ pc = "done"
    /\ \E i \in Calls("_load") : trace[i].data = EmptyDict

\* C9: when entity construction raised a schema validation failure, a
\* resolved class that supports structured validation makes the call end in
\* the typed exception built from the raw failure and the derived origin,
\* with that class's error target and base-path schema; any other resolved
\* class makes it end in the raw failure itself. The class that decides is
\* the resolved one, not the family asked for.
C9_ErrorTranslation ==
    (pc = "done" /\ raw # NoRaw) =>
        \A i \in Calls("_load") :
            LET resolved == trace[i].cls IN
            IF SchemaValidatable(resolved)
            THEN /\ \E j \in Calls("from_validation_error") :
                       trace[j].error = raw /\ trace[j].origin = C5_ExpectedOrigin
                 /\ \E j \in Calls("try_raise") :
                       /\ trace[j].error_target = GetValidationErrorTarget(resolved)
                       /\ trace[j].schema = CreateSchemaForValidationWithBasePath(resolved)
                 /\ outcome.kind = "raise"
                 /\ outcome.error.exc = "SchemaValidationError"
                 /\ outcome.error.result = FromValidationError(raw, C5_ExpectedOrigin)
                 /\ outcome.error.error_target = GetValidationErrorTarget(resolved)
                 /\ outcome.error.schema = CreateSchemaForValidationWithBasePath(resolved)
            ELSE /\ outcome = Raise(raw)
                 /\ Calls("from_validation_error") = {} /\ Calls("try_raise") = {}
C9_Witness ==
    /\ pc = "done" /\ raw # NoRaw /\ outcome.error.exc = "SchemaValidationError"
    /\ ~SchemaValidatable(lc.requested) /\ SchemaValidatable(lc.cls)

\* C10: load_component with no source, no positional argument and no path,
\* and with client, name or version not passed, ends with
\* ValidationException, MISSING_VALUE; no document is read and
\* client.components.get is not called.
C10_NoSourceNoTriple ==
    LET k == call.kwargs IN
    (/\ call.fn = "load_component" /\ pc \notin {"idle", "wrapper"}
     /\ call.source = PyNone /\ call.args = <<>> /\ call.path = PyNone
     /\ (k.client = KwAbsent \/ k.name = KwAbsent \/ k.version = KwAbsent)) =>
        /\ pc = "done"
        /\ outcome.kind = "raise"
        /\ outcome.error.exc = "ValidationException"
        /\ outcome.error.error_type = "MISSING_VALUE"
        /\ content = NotRead /\ Calls("load_yaml") = {}
        /\ remote = NoRemote /\ Calls("components.get") = {}
C10_Witness ==
    /\ call.fn = "load_component" /\ pc = "done"
    /\ call.source = PyNone /\ call.args = <<>> /\ call.path = PyNone
    /\ call.kwargs.client = "mlclient" /\ call.kwargs.name = "x"
    /\ call.kwargs.version = KwAbsent

\* did the remote fetch, and nothing else: one client.components.get call
\* with the caller's name and version, no read, no type resolution, no
\* entity construction, and the result of the fetch is the result of the call
RemoteOnly ==
    /\ pc \in {"remote", "done"}
    /\ Cardinality(Calls("components.get")) = 1
    /\ \A i \in Calls("components.get") :
          trace[i].name = call.kwargs.name /\ trace[i].version = call.kwargs.version
    /\ Calls("load_yaml") = {} /\ content = NotRead /\ NothingBuilt
    /\ pc = "done" => outcome = ComponentsGet(call.kwargs.name, call.kwargs.version, remote)

\* C11 as stated: load_component with no local source and with client, name
\* and version all passed, whatever their values, fetches the component with
\* one client.components.get(name, version) and returns its result, reading
\* and building nothing.
C11_Original ==
    LET k == call.kwargs IN
    (/\ call.fn = "load_component" /\ pc \notin {"idle", "wrapper"}
     /\ ~Truthy(Precedence(call))
     /\ k.client # KwAbsent /\ k.name # KwAbsent /\ k.version # KwAbsent) => RemoteOnly

\* C11 amended: load_component with no usable local source (none, or a
\* falsy one such as the empty string) and with client, name and version all
\* passed and all truthy fetches the component with one
\* client.components.get(name, version) and returns its result, reading and
\* building nothing; a falsy client, name or version (such as name "") ends
\* in the missing-value error instead.
C11_Amended ==
    LET k == call.kwargs IN
    (/\ call.fn = "load_component" /\ pc \notin {"idle", "wrapper"}
     /\ ~Truthy(Precedence(call))) =>
        IF KwTruthy(k.client) /\ KwTruthy(k.name) /\ KwTruthy(k.version)
        THEN RemoteOnly
        ELSE /\ pc = "done" /\ outcome = Raise(MissingValueError)
             /\ Calls("components.get") = {} /\ remote = NoRemote
C11_Witness ==
    /\ call.fn = "load_component" /\ pc = "done" /\ call.source = Str("")
    /\ remote = "remote-component" /\ outcome.kind = "return"
    /\ outcome.value.name = "x" /\ outcome.value.version = "1"

\* C12: when load_component has a usable local source (from source, a
\* positional argument or path) the local load is done, also when client,
\* name and version are all given: the source is read and
\* client.components.get is never called, whether the local load succeeds
\* or fails.
C12_LocalSourceWins ==
    (/\ call.fn = "load_component" /\ pc \notin {"idle", "wrapper"}
     /\ Truthy(Precedence(call))) =>
        /\ pc # "remote"
        /\ Calls("components.get") = {} /\ remote = NoRemote
        /\ pc # "load_common" => ReadAttempted
        /\ \A i \in Calls("load_yaml") : trace[i].source = Precedence(call)
        /\ pc = "done" => content # NotRead
C12_Witness ==
    /\ call.fn = "load_component" /\ pc = "done"
    /\ call.source = PyNone /\ call.args = <<>> /\ call.path = Str("legacy.yaml")
    /\ call.kwargs.client = "mlclient" /\ call.kwargs.name = "x" /\ call.kwargs.version = "1"
    /\ outcome.kind = "raise" /\ content.status = "parsed"

\* C13: a call reads its source at most once and calls
\* client.components.get at most once; no collaborator is called a second
\* time after a failure; only load_component makes the remote call, and no
\* call makes both a read and a remote call.
C13_AtMostOneReadOneRemote ==
    /\ Cardinality(Calls("load_yaml")) <= 1
    /\ Cardinality(Calls("components.get")) <= 1
    /\ Cardinality(Calls("_resolve_cls_and_type")) <= 1
    /\ Cardinality(Calls("_load")) <= 1
    /\ Calls("components.get") # {} => call.fn = "load_component"
    /\ ~(Calls("load_yaml") # {} /\ Calls("components.get") # {})
    /\ ~(content # NotRead /\ remote # NoRemote)
    /\ (pc = "done" /\ outcome.kind = "raise" /\ outcome.error.exc = "IOError") =>
           (Cardinality(Calls("load_yaml")) = 1 /\ Calls("components.get") = {})
    /\ (pc = "done" /\ remote = "remote-error") =>
           (Cardinality(Calls("components.get")) = 1 /\ Calls("load_yaml") = {})
C13_Witness ==
    /\ pc = "done" /\ call.fn = "load_component" /\ remote = "remote-error"
    /\ outcome.kind = "raise" /\ Cardinality(Calls("components.get")) = 1

\* the value the last override of a key gives it, the document's value when
\* no override names the key
LastOverride(items, key, default) ==
    LET idx == {i \in 1..Len(items) : items[i][1] = key} IN
    IF idx = {} THEN default
    ELSE items[CHOOSE i \in idx : \A j \in idx : j <= i][2]

\* C14: type resolution and entity construction both get the caller's
\* override list, unchanged and in the same order, and an empty list when
\* the caller gave none; in the entity a key has the value of the last
\* override that names it, before the document's value: the overrides
\* [name a, name b] on a document without a name give the name "b".
C14_OverridesLastWins ==
    LET given == call.kwargs.params_override.items IN
    /\ \A i \in Calls("_resolve_cls_and_type") \cup Calls("_load") :
          trace[i].params_override = given
    /\ call.kwargs.params_override.isnone =>
          \A i \in Calls("_resolve_cls_and_type") \cup Calls("_load") :
             trace[i].params_override = <<>>
    /\ (pc = "done" /\ outcome.kind = "return" /\ content.status = "parsed") =>
          /\ outcome.value.data.name = LastOverride(given, "name", content.doc.name)
          /\ outcome.value.data.body = LastOverride(given, "body", content.doc.body)
          /\ (given = << <<"name", "a">>, <<"name", "b">> >> /\ content.doc.name = Missing)
                => outcome.value.data.name = "b"
C14_Witness ==
    /\ pc = "done" /\ outcome.kind = "return" /\ content.status = "parsed"
    /\ call.kwargs.params_override.items = << <<"name", "a">>, <<"name", "b">> >>
    /\ content.doc.name = Missing /\ outcome.value.data.name = "b"

\* os.path.dirname of the path texts that occur as inputs
DirName(p) ==
    CASE p = "/tmp/src.yaml" -> "/tmp"
      [] p = "/tmp/foo.yaml" -> "/tmp"
      [] p = "conf/job.yaml" -> "conf"
      [] OTHER -> ""

\* C15: as the wrappers' docstrings say, without a relative_origin the origin
\* used for the load is the directory of the source when the source is a
\* file path or a file, and "./" when it is a stream without a name.
C15_OriginIsSourceDirectory ==
    LET src == Precedence(call) IN
    (ReadAttempted /\ call.relative_origin.kind = "none") =>
        /\ (IsPathValue(src) \/ (src.kind = "stream" /\ src.named)) =>
              /\ lc.relative_origin = Str(DirName(src.val))
              /\ \A i \in Calls("_load") : trace[i].yaml_path = Str(DirName(src.val))
        /\ (src.kind = "stream" /\ ~src.named) =>
              /\ lc.relative_origin = Str("./")
              /\ \A i \in Calls("_load") : trace[i].yaml_path = Str("./")

\* the collaborators load_common calls, in the order of its stages
Stages == <<"load_yaml", "_resolve_cls_and_type", "_load", "from_validation_error", "try_raise">>
\* the collaborators the call has called so far, warnings left out
StagesDone == [i \in 1..Len(SelectSeq(trace, NotWarn)) |-> SelectSeq(trace, NotWarn)[i].op]

\* C16: within load_common the source and the origin are settled first, then
\* the document is read once, then the type is resolved once, then
\* construction is tried once, on the resolved class, and the failure is
\* translated only when construction raised a schema validation failure. A
\* stage that raises ends the call: a failed read or a failed type
\* resolution is followed by no later stage and is never translated.
C16_PipelineOrder ==
    ReadAttempted =>
        /\ Len(StagesDone) <= Len(Stages)
        /\ \A i \in 1..Len(StagesDone) : StagesDone[i] = Stages[i]
        /\ \A i \in Calls("warn") : \A j \in Calls("load_yaml") : i < j
        /\ \A j \in Calls("load_yaml") :
              trace[j].source = lc.source /\ lc.relative_origin.kind # "none"
        /\ \A i \in Calls("_resolve_cls_and_type") : \A j \in Calls("_load") :
              /\ trace[i].cls = lc.requested
              /\ trace[j].cls = ResolveClsAndType(trace[i].cls, trace[i].data,
                                                  trace[i].params_override).cls
              /\ trace[j].data = trace[i].data
        /\ (pc = "translate" \/ Calls("from_validation_error") # {} \/ raw # NoRaw) =>
              (raw.exc = "ValidationError" /\ Calls("_load") # {})
        /\ (pc = "done" /\ content.status = "ioerror") =>
              (StagesDone = <<"load_yaml">> /\ raw = NoRaw /\ outcome = Raise(IOError(lc.source)))
        /\ (pc = "done" /\ content.status = "parsed" /\ content.doc.shape # "dict") =>
              (StagesDone = <<"load_yaml">> /\ raw = NoRaw /\ outcome.kind = "raise")
        /\ (pc = "done" /\ outcome.kind = "raise" /\ outcome.error.exc = "ValidationException"
              /\ outcome.error.error_type = "INVALID_VALUE") =>
              (StagesDone = <<"load_yaml", "_resolve_cls_and_type">> /\ raw = NoRaw)
        /\ (pc = "done" /\ outcome.kind = "raise" /\ outcome.error.exc = "RuntimeError") =>
              (StagesDone = <<"load_yaml", "_resolve_cls_and_type", "_load">> /\ raw = NoRaw)
        /\ (pc = "done" /\ outcome.kind = "return") =>
              StagesDone = <<"load_yaml", "_resolve_cls_and_type", "_load">>
C16_Witness ==
    /\ pc = "done" /\ StagesDone = Stages /\ Warnings = 1
    /\ lc.cls # lc.requested /\ raw.exc = "ValidationError"

\* C17: in the structured branch the additional message is empty exactly
\* when type resolution returned no discriminator string, and is otherwise
\* the fixed sentence naming the string type resolution returned; it is
\* written also when the document's discriminator is a known one.
C17_Guidance ==
    \A i \in Calls("try_raise") : \A j \in Calls("_resolve_cls_and_type") :
        LET type_str == ResolveClsAndType(trace[j].cls, trace[j].data,
                                          trace[j].params_override).type_str
            msg == trace[i].additional_message
        IN /\ msg = <<>> <=> type_str = KwNone
           /\ type_str = KwNone <=> content.doc.type = Missing
           /\ type_str # KwNone =>
                 msg = <<"If you are trying to configure an entity that is not of type ",
                         type_str,
                         ", please specify the correct type in the 'type' property.">>
           /\ pc = "done" =>
                 (outcome.kind = "raise" /\ outcome.error.exc = "SchemaValidationError"
                    /\ outcome.error.additional_message = msg)
C17_Witness ==
    /\ pc = "done" /\ content.status = "parsed" /\ content.doc.type = "t2"
    /\ \E i \in Calls("try_raise") : Len(trace[i].additional_message) = 3
                                     /\ trace[i].additional_message[2] = "t2"
C17_WitnessEmpty ==
    /\ pc = "done" /\ \E i \in Calls("try_raise") : trace[i].additional_message = <<>>

C19_TripleRemoved ==
    (call.fn = "load_component" /\ pc \notin {"idle", "wrapper"}) =>
        /\ comp.kwargs.client = KwAbsent /\ comp.kwargs.name = KwAbsent
        /\ comp.kwargs.version = KwAbsent
        /\ comp.kwargs.extra = call.kwargs.extra
        /\ comp.kwargs.params_override = call.kwargs.params_override
        /\ \A i \in Calls("_resolve_cls_and_type") :
              /\ DOMAIN trace[i] = {"op", "cls", "data", "params_override"}
              /\ trace[i].params_override = call.kwargs.params_override.items
        /\ \A i \in Calls("_load") :
              /\ trace[i].kwargs.client = KwAbsent /\ trace[i].kwargs.name = KwAbsent
              /\ trace[i].kwargs.version = KwAbsent
              /\ trace[i].kwargs.extra = call.kwargs.extra
              /\ trace[i].params_override = call.kwargs.params_override.items
        /\ ~Truthy(Precedence(call)) =>
              /\ lc = NoFrame
              /\ \A i \in 1..Len(trace) : trace[i].op \in {"warn", "components.get"}
              /\ \A i \in Calls("components.get") :
                    DOMAIN trace[i] = {"op", "name", "version"}
C19_Witness ==
    /\ call.fn = "load_component" /\ pc = "done" /\ outcome.kind = "return"
    /\ call.kwargs.client = "mlclient" /\ call.kwargs.name = "x" /\ call.kwargs.version = "1"
    /\ call.kwargs.extra = "tag" /\ call.kwargs.params_override.items # <<>>
    /\ content.status = "parsed" /\ outcome.value.kwargs.extra = "tag"
    /\ outcome.value.kwargs.client = KwAbsent

\* ------------------------------ azure.core.experimental.transport, actions
LoaderIdle == UNCHANGED <<pc, call, comp, lc, content, remote, raw, outcome, trace, prev>>

\* the module is imported on a machine with some of the packages installed
TransportInit ==
    /\ pc = "idle"
    /\ call = NoCall
    /\ comp = NoComp
    /\ lc = NoFrame
    /\ content = NotRead
    /\ remote = NoRemote
    /\ raw = NoRaw
    /\ outcome = Running
    /\ trace = <<>>
    /\ prev = NoPrev
    /\ \E installed \in SUBSET Packages : tp = Transport(installed)

\* a caller reads an attribute of the module that is not in its namespace
GetAttrCall ==
    /\ \E name \in AttrNames :
          LET importable == Importable(tp.installed, tp.loaded)
              r == GetAttr(name, importable)
          IN tp' = [tp EXCEPT
                       !.last = [name |-> name, importable |-> importable,
                                 outcome |-> r.outcome],
                       !.loaded = tp.loaded \cup r.imported,
                       !.failed = IF r.outcome.kind = "raise"
                                  THEN tp.failed \cup {name} ELSE tp.failed,
                       !.succeeded = IF r.outcome.kind = "return"
                                     THEN tp.succeeded \cup {name} ELSE tp.succeeded]
    /\ LoaderIdle

\* a caller lists the module: dir(module)
DirCall ==
    /\ tp' = [tp EXCEPT !.listing = TransportDir]
    /\ LoaderIdle

\* a package is installed or removed between two lookups
Install ==
    /\ \E p \in Packages \ tp.installed :
          tp' = [tp EXCEPT !.installed = tp.installed \cup {p}]
    /\ LoaderIdle
Uninstall ==
    /\ \E p \in tp.installed :
          tp' = [tp EXCEPT !.installed = tp.installed \ {p}]
    /\ LoaderIdle

TransportNext ==
    \/ GetAttrCall
    \/ DirCall
    \/ Install
    \/ Uninstall

TransportSpec == TransportInit /\ [][TransportNext]_vars

\* the names dir(module) lists
Listed == {TransportDir[i] : i \in 1..Len(TransportDir)}
\* the backend module and the package each listed name stands for
ModuleFor(name) ==
    CASE name = "PyodideTransport" -> "_pyodide"
      [] name = "HttpXTransport" -> "_httpx"
      [] name = "AsyncHttpXTransport" -> "_httpx_async"
      [] name = "Urllib3Transport" -> "_urllib3"
MissingPackageMessage(name) ==
    CASE name = "PyodideTransport" -> "pyodide package is not installed"
      [] name = "HttpXTransport" -> "httpx package is not installed"
      [] name = "AsyncHttpXTransport" -> "httpx package is not installed"
      [] name = "Urllib3Transport" -> "urllib3 package is not installed"

\* C20: a lookup of the transport module raises AttributeError exactly for
\* the names that __dir__() / __all__ do not list; for each of the four
\* listed names it returns the backend class of that name when the backend
\* can be imported and otherwise raises ImportError naming the package that
\* is missing (pyodide, httpx, httpx, urllib3), never AttributeError. What a
\* lookup gives depends on the name and on what can be imported only: failed
\* lookups import nothing and change nothing for the lookups after them.
C20_TransportFacade ==
    /\ tp.listing \in {<<>>, TransportAll}
    /\ Listed = {"PyodideTransport", "HttpXTransport", "AsyncHttpXTransport",
                 "Urllib3Transport"}
    /\ tp.loaded = {ModuleFor(n) : n \in tp.succeeded}
    /\ tp.succeeded \subseteq Listed
    /\ tp.last # NoLookup =>
          LET n == tp.last.name
              o == tp.last.outcome
          IN /\ o.kind \in {"return", "raise"}
             /\ (o.kind = "raise" /\ o.error.exc = "AttributeError") <=> n \notin Listed
             /\ n \in Listed =>
                   IF ModuleFor(n) \in tp.last.importable
                   THEN o = Return([class |-> n, module |-> ModuleFor(n)])
                   ELSE o = Raise([exc |-> "ImportError",
                                   message |-> MissingPackageMessage(n)])
C20_Witness ==
    /\ tp.last.name = "Urllib3Transport" /\ tp.last.outcome.kind = "return"
    /\ tp.last.outcome.value.class = "Urllib3Transport"
    /\ {"PyodideTransport", "AsyncHttpXTransport", "RequestsTransport"} \subseteq tp.failed

====
